---- MODULE Spec2Model ----
(***************************************************************************)
(* A model of app/static/js/main.js: the page's behaviour layer.  Every    *)
(* controller (initFlash .. initCopyButtons) attaches its listeners once,  *)
(* on DOMContentLoaded; the initial states below are the states right      *)
(* after that.  Each controller owns its own state, so each has its own    *)
(* specification (SpecFilter, SpecConfirm, ...); Spec is their union, the  *)
(* variable scenario saying which controller's events a behaviour feeds.   *)
(*                                                                         *)
(* Time is counted in milliseconds.  A controller that uses timers keeps,  *)
(* for every pending timer, the time left until it is due; a timer that is *)
(* due fires before the clock moves on.                                    *)
(***************************************************************************)
EXTENDS Integers, Sequences, FiniteSets, TLC

VARIABLES
  scenario,     \* which controller's events this behaviour feeds
  \* ---- initAutoSubmitFilters (one form) ----
  fAuto,        \* the form has data-autosubmit='1'
  fText,        \* the form has data-autosubmit-text='1'
  fPerEl,       \* control -> the control has data-autosubmit-text='1'
  fTimers,      \* pending setTimeout timers of the page: records [id, left]
  fT,           \* debounce's closure variable t: 0 (null) or a timer id
  fSince,       \* text control -> ms since its listener last ran, -1: never
  fFired,       \* text control -> debounced submits since then (capped at 2)
  fBurst,       \* runs of the debounced listener in the current burst (capped at 2)
  fLast,        \* the event handled last: [kind, ctl]
  fSubmitted,   \* form.submit() calls made while handling fLast
  \* ---- initConfirms ----
  cAttr,        \* element -> its data-confirm attribute ("absent" when it has none)
  cEv,          \* the event dispatched last, as the guard's listener left it
  cPending,     \* the click's default action, submitting the form, is still to run
  cPrompts,     \* window.confirm calls made for the current user action
  \* ---- initTooltips ----
  tipAttr,      \* element -> its data-tip attribute ("absent" when it has none)
  tipCount,     \* tooltip elements appended to the body
  tActive,      \* the closure variable active: an element or "null"
  tipText,      \* tip.textContent
  tipDisplay,   \* tip.style.display
  tipPos,       \* tip.style.left and top in px, -1: not set
  tLast,        \* the event handled last: [kind, target, was]
  \* ---- initModals ----
  mOverlay,     \* dialog -> its data-modal-overlay-close attribute
  mSel,         \* opener -> the element its data-modal-open selector finds, or "null"
  mOpen,        \* dialog -> it has the class is-open
  mAria,        \* dialog -> its aria-hidden attribute ("absent" when it has none)
  mRoot,        \* the document element has the class is-modal-open
  mTouched,     \* dialog -> openModal or closeModal has run on it
  mLast,        \* the event handled last: [kind, arg, prevented]
  \* ---- initCopyButtons (one copy button, "cp") ----
  cpData,       \* the button's data-copy attribute ("absent" when it has none)
  cpTarget,     \* the button's data-copy-target attribute
  cpSrcValue,   \* the referenced element's value ("undefined": not a form control)
  cpSrcText,    \* the referenced element's textContent
  cpTip0,       \* the button's data-tip attribute as rendered
  cpTip,        \* the button's data-tip attribute now
  cpWrites,     \* navigator.clipboard.writeText promises not yet settled: [id, text]
  cpTimers,     \* pending feedback timers, oldest first: [left, prev]
  cpShown,      \* feedback has been shown at least once
  cpLast,       \* the step taken last: [kind, target, text, did]
  \* ---- initNumericInputs (one input with data-numeric='1') ----
  nMin,         \* its data-min attribute, a string (Null when it has none)
  nMax,         \* its data-max attribute
  nValue,       \* inp.value
  nInvalid,     \* the input has the class is-invalid
  nLast,        \* the event handled last: [kind, before, flagged]
  nBlurSet,     \* the blur listener has added the class is-invalid
  \* ---- initCharts, and initCopyButtons called after it ----
  chEngine,     \* window.Chart is defined
  chCount,      \* the number of canvases with the class js-chart
  chPhase,      \* where the DOMContentLoaded handler is: "before", "loop", "returned", "done"
  chPos,        \* the canvas forEach is at (1 is the first in document order)
  chBuilt,      \* the canvases new window.Chart was given, in the order of the calls
  chThrew,      \* the canvases whose callback threw into the catch block
  chLast,       \* the canvas handled last: its attributes and the configuration built
  chCopyAttached, \* initCopyButtons has attached its click listener
  \* ---- window.AppUI.parseNumber, called by a page script ----
  pS,           \* the string the script holds
  pR            \* the calls made on it last: [called, comma, dot]

filterVars == <<fAuto, fText, fPerEl, fTimers, fT, fSince, fFired, fBurst, fLast, fSubmitted>>
confirmVars == <<cAttr, cEv, cPending, cPrompts>>
tipVars == <<tipAttr, tipCount, tActive, tipText, tipDisplay, tipPos, tLast>>
modalVars == <<mOverlay, mSel, mOpen, mAria, mRoot, mTouched, mLast>>
copyVars == <<cpData, cpTarget, cpSrcValue, cpSrcText, cpTip0, cpTip, cpWrites, cpTimers,
              cpShown, cpLast>>
numVars == <<nMin, nMax, nValue, nInvalid, nLast, nBlurSet>>
parseVars == <<pS, pR>>
chartVars == <<chEngine, chCount, chPhase, chPos, chBuilt, chThrew, chLast, chCopyAttached>>

vars == <<scenario, filterVars, confirmVars, tipVars, modalVars, copyVars, numVars,
          chartVars, parseVars>>

\* A behaviour feeds one controller's events and leaves the others alone.
OnlyFilter ==
  scenario = "filter"
  /\ UNCHANGED <<scenario, confirmVars, tipVars, modalVars, copyVars, numVars, chartVars,
               parseVars>>
OnlyConfirm ==
  scenario = "confirm"
  /\ UNCHANGED <<scenario, filterVars, tipVars, modalVars, copyVars, numVars, chartVars,
               parseVars>>
OnlyTooltip ==
  scenario = "tooltip"
  /\ UNCHANGED <<scenario, filterVars, confirmVars, modalVars, copyVars, numVars, chartVars,
               parseVars>>
OnlyModal ==
  scenario = "modal"
  /\ UNCHANGED <<scenario, filterVars, confirmVars, tipVars, copyVars, numVars, chartVars,
               parseVars>>
OnlyCopy ==
  scenario = "copy"
  /\ UNCHANGED <<scenario, filterVars, confirmVars, tipVars, modalVars, numVars, chartVars,
               parseVars>>
OnlyNumeric ==
  scenario = "numeric"
  /\ UNCHANGED <<scenario, filterVars, confirmVars, tipVars, modalVars, copyVars, chartVars,
               parseVars>>
OnlyParse ==
  scenario = "parse"
  /\ UNCHANGED <<scenario, filterVars, confirmVars, tipVars, modalVars, copyVars, numVars,
               chartVars>>
OnlyCharts ==
  scenario = "charts"
  /\ UNCHANGED <<scenario, filterVars, confirmVars, tipVars, modalVars, copyVars, numVars,
               parseVars>>

(***************************************************************************)
(* The page: the elements the controllers below act on, as a tree.         *)
(***************************************************************************)

\* element -> its parent element ("none" above html)
Parent(e) ==
  CASE e = "html" -> "none"
    [] e = "body" -> "html"
    \* a guarded form with a submit button (holding an icon) and a text field
    [] e = "frm" -> "body"
    [] e = "sub" -> "frm"
    [] e = "ico" -> "sub"
    [] e = "fld" -> "frm"
    \* a link holding a span, and a plain box
    [] e = "lnk" -> "body"
    [] e = "txt" -> "lnk"
    [] e = "box" -> "body"
    \* two annotated elements, one inside the other, and a third beside them
    [] e = "tOut" -> "body"
    [] e = "tIn" -> "tOut"
    [] e = "tLeaf" -> "tIn"
    [] e = "tB" -> "body"
    \* an opener; a dialog holding its content, which holds a closer, an
    \* opener and a paragraph; a second dialog; a closer outside any dialog
    [] e = "o1" -> "body"
    [] e = "m1" -> "body"
    [] e = "k1" -> "m1"
    [] e = "x1" -> "k1"
    [] e = "o2" -> "k1"
    [] e = "p1" -> "k1"
    [] e = "m2" -> "body"
    [] e = "k2" -> "m2"
    [] e = "x2" -> "k2"
    [] e = "xFree" -> "body"
    \* a copy button holding an icon, and the element it may refer to
    [] e = "cp" -> "body"
    [] e = "cpIco" -> "cp"
    [] e = "src" -> "body"
    [] OTHER -> "body"

RECURSIVE SelfAndAncestors(_)
SelfAndAncestors(e) == IF e = "none" THEN {} ELSE {e} \cup SelfAndAncestors(Parent(e))

\* element.closest(selector), S being the elements the selector matches:
\* the nearest of e and its ancestors that is in S, "null" when none is.
RECURSIVE Closest(_, _)
Closest(e, S) ==
  IF e = "none" THEN "null"
  ELSE IF e \in S THEN e
  ELSE Closest(Parent(e), S)

(***************************************************************************)
(* Filter Auto-Submit Controller: debounce and initAutoSubmitFilters       *)
(***************************************************************************)

\* debounce(() => form.submit(), 300)
DebounceMs == 300

\* The cap on pending timers; the code never has more than one.
MaxTimers == 3

\* The selector of line 97 and the selector of line 101.
ImmediateTypes == {"select", "checkbox", "radio", "date", "datetime-local", "time"}
TextTypes == {"text", "search", "number"}

\* The form's controls: one of each type the selectors name, and an email
\* input, which neither selector matches.
FilterCtls == {"sel", "chk", "rad", "date", "dtl", "time", "txtA", "srchB", "numC", "mail"}
CtlType(c) ==
  CASE c = "sel" -> "select"
    [] c = "chk" -> "checkbox"
    [] c = "rad" -> "radio"
    [] c = "date" -> "date"
    [] c = "dtl" -> "datetime-local"
    [] c = "time" -> "time"
    [] c = "txtA" -> "text"
    [] c = "srchB" -> "search"
    [] c = "numC" -> "number"
    [] OTHER -> "email"
TextCtls == {c \in FilterCtls : CtlType(c) \in TextTypes}

\* The controls that got a "change" listener calling form.submit().
HasChangeListener(c) == fAuto /\ CtlType(c) \in ImmediateTypes

\* A variant that never registers the debounced listener per element.
HasInputListenerFormOnly(c) == fAuto /\ CtlType(c) \in TextTypes /\ fText

\* The controls that got the "input" listener submitDebounced.
HasInputListener(c) == fAuto /\ CtlType(c) \in TextTypes /\ (fText \/ fPerEl[c])

\* clearTimeout(id): the pending timers without the one id names, if any.
clearTimeout(ts, id) == {tm \in ts : tm.id # id}

\* setTimeout's return value: an id no pending timer and no holder has.
FreshId(ts, held) == CHOOSE i \in 1..(Cardinality(ts) + 2) : i # held /\ \A tm \in ts : tm.id # i

Min2(a, b) == IF a < b THEN a ELSE b

\* The returned closure of debounce: clearTimeout(t); t = setTimeout(fn, ms).
submitDebounced(c) ==
  LET kept == clearTimeout(fTimers, fT)
      id == FreshId(kept, fT)
  IN /\ Cardinality(kept) < MaxTimers
     /\ fTimers' = kept \cup {[id |-> id, left |-> DebounceMs]}
     /\ fT' = id
     /\ fSince' = [fSince EXCEPT ![c] = 0]
     /\ fFired' = [fFired EXCEPT ![c] = 0]
     /\ fBurst' = IF fTimers = {} THEN 1 ELSE Min2(fBurst + 1, 2)
     /\ fSubmitted' = 0

\* A variant of the change listener that goes through the debounced function.
ChangeListenerDebounced(c) ==
  LET kept == clearTimeout(fTimers, fT)
      id == FreshId(kept, fT)
  IN /\ Cardinality(kept) < MaxTimers
     /\ fTimers' = kept \cup {[id |-> id, left |-> DebounceMs]}
     /\ fT' = id
     /\ fSubmitted' = 0
     /\ UNCHANGED <<fSince, fFired, fBurst>>

\* The change listener of line 98: () => form.submit().
ChangeListener(c) ==
  /\ fSubmitted' = 1
  /\ UNCHANGED <<fTimers, fT, fSince, fFired, fBurst>>

\* A "change" event on control c.
FilterChange(c) ==
  /\ OnlyFilter
  /\ fLast' = [kind |-> "change", ctl |-> c]
  /\ IF HasChangeListener(c)
       THEN ChangeListener(c)
       ELSE fSubmitted' = 0 /\ UNCHANGED <<fTimers, fT, fSince, fFired, fBurst>>
  /\ UNCHANGED <<fAuto, fText, fPerEl>>

\* An "input" event on control c.
FilterInput(c) ==
  /\ OnlyFilter
  /\ fLast' = [kind |-> "input", ctl |-> c]
  /\ IF HasInputListener(c)
       THEN submitDebounced(c)
       ELSE fSubmitted' = 0 /\ UNCHANGED <<fTimers, fT, fSince, fFired, fBurst>>
  /\ UNCHANGED <<fAuto, fText, fPerEl>>

\* A due timer runs its callback, fn(...args): form.submit().
FilterTimerFires ==
  \E tm \in fTimers :
    /\ OnlyFilter
    /\ tm.left = 0
    /\ fTimers' = fTimers \ {tm}
    /\ fSubmitted' = 1
    /\ fFired' = [c \in TextCtls |-> IF fSince[c] = -1 THEN 0 ELSE Min2(fFired[c] + 1, 2)]
    /\ fLast' = [kind |-> "timer", ctl |-> "none"]
    /\ UNCHANGED <<fAuto, fText, fPerEl, fT, fSince, fBurst>>

\* 100 ms pass; no timer is due.
FilterTick ==
  /\ OnlyFilter
  /\ \A tm \in fTimers : tm.left > 0
  /\ fTimers' = {[id |-> tm.id, left |-> tm.left - 100] : tm \in fTimers}
  /\ fSince' = [c \in TextCtls |->
                  IF fSince[c] = -1 THEN -1 ELSE Min2(fSince[c] + 100, DebounceMs + 100)]
  /\ fLast' = [kind |-> "tick", ctl |-> "none"]
  /\ fSubmitted' = 0
  /\ UNCHANGED <<fAuto, fText, fPerEl, fT, fFired, fBurst>>

FilterIdle ==
  /\ fAuto = FALSE /\ fText = FALSE
  /\ fPerEl = [c \in FilterCtls |-> FALSE]
  /\ fTimers = {} /\ fT = 0
  /\ fSince = [c \in TextCtls |-> -1]
  /\ fFired = [c \in TextCtls |-> 0]
  /\ fBurst = 0
  /\ fLast = [kind |-> "none", ctl |-> "none"]
  /\ fSubmitted = 0

\* The page as rendered: any combination of the opt-in attributes.
FilterInit ==
  /\ fAuto \in BOOLEAN /\ fText \in BOOLEAN
  /\ fPerEl \in [FilterCtls -> BOOLEAN]
  /\ fPerEl["mail"]
  /\ \A c \in FilterCtls \ {"txtA", "srchB", "mail"} : ~fPerEl[c]
  /\ fTimers = {} /\ fT = 0
  /\ fSince = [c \in TextCtls |-> -1]
  /\ fFired = [c \in TextCtls |-> 0]
  /\ fBurst = 0
  /\ fLast = [kind |-> "none", ctl |-> "none"]
  /\ fSubmitted = 0

NextFilter ==
  \/ \E c \in FilterCtls : FilterChange(c)
  \/ \E c \in FilterCtls : FilterInput(c)
  \/ FilterTimerFires
  \/ FilterTick

(***************************************************************************)
(* Claims about the Filter Auto-Submit Controller                          *)
(***************************************************************************)

\* C1: for every opted-in text, search or number field of an auto-submit
\* form, a burst of input events on it ends in a debounced form.submit() one
\* debounce delay (300 ms) after the field's own last event: nothing is
\* submitted while that event is less than 300 ms old, the submit has happened
\* once it is more than 300 ms old, and at most one debounced submission is
\* pending.
C1_OneSubmitPerControlBurst ==
  /\ Cardinality(fTimers) <= 1
  /\ \A c \in TextCtls :
       (fAuto /\ (fText \/ fPerEl[c]) /\ fSince[c] # -1) =>
         /\ fSince[c] < DebounceMs => fFired[c] = 0
         /\ fSince[c] > DebounceMs => fFired[c] >= 1

\* C1, witness: the text field's last input event is more than 300 ms old,
\* the search field received input in between (the second run of the shared
\* listener), and nothing has been submitted since the text field's event:
\* the one timer is still pending.
C1_Witness ==
  /\ fAuto /\ fSince["txtA"] > DebounceMs /\ fFired["txtA"] = 0
  /\ fBurst = 2
  /\ fSince["srchB"] # -1 /\ fSince["srchB"] <= DebounceMs
  /\ Cardinality(fTimers) = 1

\* C2: in a form with data-autosubmit='1', handling a change event on a
\* select, checkbox, radio, date, datetime-local or time input calls
\* form.submit() exactly once, in the handler, and neither creates nor
\* cancels a timer.
C2_ChangeSubmitsImmediately ==
  [][ (/\ fLast'.kind = "change"
       /\ fAuto
       /\ fLast'.ctl \in {"sel", "chk", "rad", "date", "dtl", "time"})
      => (fSubmitted' = 1 /\ fTimers' = fTimers /\ fT' = fT) ]_vars

\* C2, witness: a checkbox change was submitted at once while a debounce
\* timer of the same form stayed pending.
C2_Witness ==
  /\ fLast = [kind |-> "change", ctl |-> "chk"]
  /\ fSubmitted = 1
  /\ \E tm \in fTimers : tm.left = 200

\* C14: in an auto-submit form, handling an input event on a text, search
\* or number field submits nothing at once; it schedules the debounced
\* submission if the form or the field itself has data-autosubmit-text='1',
\* the field's own attribute sufficing, and otherwise creates no timer, so
\* that nothing is submitted later either.
C14_TextFieldsSubmitOnlyWhenOptedIn ==
  [][ (fLast'.kind = "input" /\ fAuto /\ fLast'.ctl \in {"txtA", "srchB", "numC"})
      => /\ fSubmitted' = 0
         /\ IF fText \/ fPerEl[fLast'.ctl]
              THEN \E tm \in fTimers' : tm.left = DebounceMs
              ELSE fTimers' = fTimers /\ fT' = fT ]_vars

\* C14, witness: the form is not opted in, the text field is, and its input
\* event has scheduled the debounced submission.
C14_Witness ==
  /\ fAuto /\ ~fText /\ fPerEl["txtA"]
  /\ fLast = [kind |-> "input", ctl |-> "txtA"]
  /\ fSubmitted = 0
  /\ \E tm \in fTimers : tm.left = DebounceMs

\* C16: debounce timers are per control: every opted-in field has a pending
\* timer of its own; while its last input event is less than 300 ms old, a
\* timer due 300 ms after that event is pending, whatever input the other
\* fields have received since.
C16_EachFieldKeepsItsOwnTimer ==
  \A c \in TextCtls :
    (fAuto /\ (fText \/ fPerEl[c]) /\ fSince[c] # -1 /\ fSince[c] < DebounceMs) =>
      \E tm \in fTimers : tm.left = DebounceMs - fSince[c]

\* C16, witness: 100 ms after an input event on the text field an input
\* event on the search field was handled; one timer is pending, due in 300 ms,
\* and the timer the text field's event had started is gone.
C16_Witness ==
  /\ fLast = [kind |-> "input", ctl |-> "srchB"]
  /\ fSince["txtA"] = 100 /\ fFired["txtA"] = 0
  /\ Cardinality(fTimers) = 1
  /\ \A tm \in fTimers : tm.left = DebounceMs

(***************************************************************************)
(* Confirmation Guard: initConfirms                                        *)
(***************************************************************************)

ConfirmElems ==
  {"html", "body", "frm", "sub", "ico", "fld", "lnk", "txt", "box",
   "o1", "m1", "k1", "x1", "cp"}
ConfirmForms == {"frm"}

\* The elements whose activation submits their form: the submit button and
\* what it holds.
SubmitsForm(e) == e \in {"sub", "ico"}

\* The attribute values of the model: none, empty, a prompt text.
AttrValues == {"absent", "", "Delete?"}

\* The default prompt text of lines 68 and 81 (Russian in the source:
\* "confirm the action?"), transliterated.
DefaultPrompt == "Podtverdit deistvie?"

\* A fresh event: not default-prevented, propagating, no prompt shown.
NewEvent(type, target) ==
  [type |-> type, target |-> target, prevented |-> FALSE, stopped |-> FALSE,
   prompted |-> FALSE, msg |-> "", answer |-> FALSE]

\* A variant that cancels the default action and lets the event propagate.
ConfirmOrCancelNoStop(ev, attr, ok) ==
  LET asked == [ev EXCEPT !.prompted = TRUE, !.answer = ok,
                          !.msg = IF attr = "" THEN DefaultPrompt ELSE attr]
  IN IF ~ok THEN [asked EXCEPT !.prevented = TRUE] ELSE asked

\* const msg = el.getAttribute("data-confirm") || default;
\* if (!window.confirm(msg)) { e.preventDefault(); e.stopPropagation(); }
\* ok is what window.confirm returns.
ConfirmOrCancel(ev, attr, ok) ==
  LET asked == [ev EXCEPT !.prompted = TRUE, !.answer = ok,
                          !.msg = IF attr = "" THEN DefaultPrompt ELSE attr]
  IN IF ~ok THEN [asked EXCEPT !.prevented = TRUE, !.stopped = TRUE] ELSE asked

\* The document's click listener of initConfirms, run on event ev.
ConfirmClickListener(ev, ok) ==
  LET el == Closest(ev.target, {e \in ConfirmElems : cAttr[e] # "absent"})
  IN IF el = "null" THEN ev ELSE ConfirmOrCancel(ev, cAttr[el], ok)

\* The document's capturing submit listener of initConfirms, run on event ev.
ConfirmSubmitListener(ev, ok) ==
  LET form == Closest(ev.target, {e \in ConfirmForms : cAttr[e] # "absent"})
  IN IF form = "null" THEN ev ELSE ConfirmOrCancel(ev, cAttr[form], ok)

Prompts(ev) == IF ev.prompted THEN 1 ELSE 0

\* The user clicks element target; ok is the answer the user gives if asked.
\* A click on the submit button that is not cancelled goes on to submit the form.
ConfirmClick(target, ok) ==
  /\ OnlyConfirm
  /\ ~cPending
  /\ LET ev == ConfirmClickListener(NewEvent("click", target), ok)
     IN /\ cEv' = ev
        /\ cPrompts' = Prompts(ev)
        /\ cPending' = (SubmitsForm(target) /\ ~ev.prevented)
  /\ UNCHANGED cAttr

\* The submit event of the form, the default action of the click before it.
ConfirmSubmitAfterClick(ok) ==
  /\ OnlyConfirm
  /\ cPending
  /\ LET ev == ConfirmSubmitListener(NewEvent("submit", "frm"), ok)
     IN /\ cEv' = ev
        /\ cPrompts' = cPrompts + Prompts(ev)
  /\ cPending' = FALSE
  /\ UNCHANGED cAttr

\* The form is submitted without a click (Enter in its text field).
ConfirmSubmitByKey(ok) ==
  /\ OnlyConfirm
  /\ ~cPending
  /\ LET ev == ConfirmSubmitListener(NewEvent("submit", "frm"), ok)
     IN /\ cEv' = ev
        /\ cPrompts' = Prompts(ev)
  /\ cPending' = FALSE
  /\ UNCHANGED cAttr

ConfirmIdle ==
  /\ cAttr = [e \in ConfirmElems |-> "absent"]
  /\ cEv = NewEvent("none", "none")
  /\ cPending = FALSE
  /\ cPrompts = 0

\* The page as rendered: the form, its button and the link carry any
\* data-confirm value or none.
ConfirmInit ==
  /\ cAttr \in [ConfirmElems -> AttrValues]
  /\ \A e \in ConfirmElems \ {"frm", "sub", "lnk"} : cAttr[e] = "absent"
  /\ cEv = NewEvent("none", "none")
  /\ cPending = FALSE
  /\ cPrompts = 0

NextConfirm ==
  \/ \E e \in ConfirmElems, ok \in BOOLEAN : ConfirmClick(e, ok)
  \/ \E ok \in BOOLEAN : ConfirmSubmitAfterClick(ok)
  \/ \E ok \in BOOLEAN : ConfirmSubmitByKey(ok)

(***************************************************************************)
(* Claims about the Confirmation Guard                                     *)
(***************************************************************************)

\* C3: when the guard's listener has handled a click on or inside an element
\* carrying data-confirm, or a submit of a form carrying data-confirm, the
\* user was asked, and the event is default-prevented and propagation-stopped
\* if and only if window.confirm returned false (untouched when it returned
\* true).
C3_DeclineCancelsAcceptAllows ==
  LET guarded ==
        \/ cEv.type = "click" /\ \E e \in SelfAndAncestors(cEv.target) : cAttr[e] # "absent"
        \/ cEv.type = "submit" /\ cAttr[cEv.target] # "absent"
  IN guarded =>
       /\ cEv.prompted
       /\ cEv.prevented <=> ~cEv.answer
       /\ cEv.stopped <=> ~cEv.answer

\* C3, witness: a click inside a guarded link was declined and cancelled.
C3_Witness ==
  /\ cEv.type = "click" /\ cEv.target = "txt" /\ cAttr["lnk"] = "Delete?"
  /\ cEv.prompted /\ ~cEv.answer /\ cEv.prevented /\ cEv.stopped

\* C20: one user action on a form carrying data-confirm (its button carrying
\* none) shows the prompt exactly once: a click on the submit button, with the
\* submit event that follows unless the click was cancelled, makes one
\* window.confirm call, as does a submission from the keyboard, and a click
\* on a control of the form that does not submit it makes none.
C20_OnePromptPerUserAction ==
  (cAttr["frm"] # "absent" /\ cAttr["sub"] = "absent" /\ ~cPending) =>
    /\ cEv.type = "submit" => cPrompts = 1
    /\ (cEv.type = "click" /\ cEv.target \in {"sub", "ico"}) => cPrompts = 1
    /\ (cEv.type = "click" /\ cEv.target = "fld") => cPrompts = 0

\* C20, witness: the form carries data-confirm, its submit button was
\* clicked, the user accepted, was asked again for the submit event, and
\* accepted again.
C20_Witness ==
  /\ cAttr["frm"] = "Delete?" /\ cAttr["sub"] = "absent"
  /\ cEv.type = "submit" /\ cEv.prompted /\ cEv.answer /\ ~cEv.prevented
  /\ ~cPending /\ cPrompts = 2

(***************************************************************************)
(* Tooltip Controller: initTooltips                                        *)
(***************************************************************************)

TipElems == {"body", "tOut", "tIn", "tLeaf", "tB"}
TipValues == {"absent", "", "Hint"}

\* e.clientX + 12, e.clientY + 14
TipOffsetX == 12
TipOffsetY == 14

\* Pointer coordinates of the model.
MaxCoord == 1

\* The elements matching [data-tip].
HasTip == {e \in TipElems : tipAttr[e] # "absent"}

\* el.getAttribute("data-tip") || ""
TipTextOf(el) == IF tipAttr[el] = "absent" THEN "" ELSE tipAttr[el]

\* A variant of the mouseover listener that tracks the element before it
\* looks at the text.
MouseOverTracksFirst(target) ==
  LET el == Closest(target, HasTip)
  IN IF el = "null" THEN UNCHANGED <<tActive, tipText, tipDisplay>>
     ELSE IF TipTextOf(el) = ""
       THEN tActive' = el /\ UNCHANGED <<tipText, tipDisplay>>
       ELSE /\ tActive' = el
            /\ tipText' = TipTextOf(el)
            /\ tipDisplay' = "block"

\* The mouseover listener.
MouseOverListener(target) ==
  LET el == Closest(target, HasTip)
  IN IF el = "null" \/ TipTextOf(el) = ""
       THEN UNCHANGED <<tActive, tipText, tipDisplay>>
       ELSE /\ tActive' = el
            /\ tipText' = TipTextOf(el)
            /\ tipDisplay' = "block"

TipMouseOver(target) ==
  /\ OnlyTooltip
  /\ MouseOverListener(target)
  /\ tLast' = [kind |-> "mouseover", target |-> target, was |-> tActive]
  /\ UNCHANGED <<tipAttr, tipCount, tipPos>>

\* The mousemove listener.
TipMouseMove(x, y) ==
  /\ OnlyTooltip
  /\ IF tActive = "null"
       THEN UNCHANGED tipPos
       ELSE tipPos' = [left |-> x + TipOffsetX, top |-> y + TipOffsetY]
  /\ tLast' = [kind |-> "mousemove", target |-> "none", was |-> tActive]
  /\ UNCHANGED <<tipAttr, tipCount, tActive, tipText, tipDisplay>>

\* The mouseout listener.
TipMouseOut(target) ==
  /\ OnlyTooltip
  /\ IF Closest(target, HasTip) = "null"
       THEN UNCHANGED <<tActive, tipDisplay>>
       ELSE tActive' = "null" /\ tipDisplay' = "none"
  /\ tLast' = [kind |-> "mouseout", target |-> target, was |-> tActive]
  /\ UNCHANGED <<tipAttr, tipCount, tipText, tipPos>>

\* The scroll listener.
TipScroll ==
  /\ OnlyTooltip
  /\ IF tActive = "null"
       THEN UNCHANGED <<tActive, tipDisplay>>
       ELSE tActive' = "null" /\ tipDisplay' = "none"
  /\ tLast' = [kind |-> "scroll", target |-> "none", was |-> tActive]
  /\ UNCHANGED <<tipAttr, tipCount, tipText, tipPos>>

\* initTooltips has run once: one hidden tooltip element, nothing tracked.
TipCreated ==
  /\ tipCount = 1
  /\ tActive = "null"
  /\ tipText = ""
  /\ tipDisplay = "none"
  /\ tipPos = [left |-> -1, top |-> -1]
  /\ tLast = [kind |-> "none", target |-> "none", was |-> "null"]

TooltipIdle == tipAttr = [e \in TipElems |-> "absent"] /\ TipCreated

\* The page as rendered: every element but the body carries any data-tip
\* value or none.
TooltipInit ==
  /\ tipAttr \in [TipElems -> TipValues]
  /\ tipAttr["body"] = "absent"
  /\ TipCreated

NextTooltip ==
  \/ \E e \in TipElems : TipMouseOver(e)
  \/ \E x \in 0..MaxCoord, y \in 0..MaxCoord : TipMouseMove(x, y)
  \/ \E e \in TipElems : TipMouseOut(e)
  \/ TipScroll

(***************************************************************************)
(* Claims about the Tooltip Controller                                     *)
(***************************************************************************)

\* C4: there is one tooltip element, visible exactly when an element is
\* tracked as active; after a mouseout from the tipped element (the target
\* being it or inside it) and after a scroll, the tooltip is hidden and
\* nothing is tracked.
C4_TooltipVisibleIffActive ==
  /\ tipCount = 1
  /\ (tipDisplay = "block") <=> (tActive # "null")
  /\ tipDisplay \in {"block", "none"}
  /\ (tLast.kind = "mouseout" /\ tLast.was \in SelfAndAncestors(tLast.target))
       => (tActive = "null" /\ tipDisplay = "none")
  /\ tLast.kind = "scroll" => (tActive = "null" /\ tipDisplay = "none")

\* C4, witness: the pointer left the inside of the element whose tooltip was
\* showing, and the tooltip is hidden.
C4_Witness ==
  /\ tLast = [kind |-> "mouseout", target |-> "tLeaf", was |-> "tOut"]
  /\ tActive = "null" /\ tipDisplay = "none" /\ tipText = "Hint"

(***************************************************************************)
(* Modal Controller: initModals                                            *)
(***************************************************************************)

ModalElems == {"html", "body", "o1", "m1", "k1", "x1", "o2", "p1", "m2", "k2", "x2", "xFree"}
\* The elements matching [data-modal], in document order.
Dialogs == {"m1", "m2"}
DialogOrder == <<"m1", "m2">>
\* The elements matching [data-modal-open] and [data-modal-close].
Openers == {"o1", "o2"}
Closers == {"x1", "x2", "xFree"}
OverlayValues == {"absent", "1", "true"}
Keys == {"Escape", "Enter"}

\* document.querySelector("[data-modal].is-open"): the first open dialog in
\* document order, "null" when none is open.
RECURSIVE FirstOpenFrom(_)
FirstOpenFrom(i) ==
  IF i > Len(DialogOrder) THEN "null"
  ELSE IF mOpen[DialogOrder[i]] THEN DialogOrder[i]
  ELSE FirstOpenFrom(i + 1)
FirstOpen == FirstOpenFrom(1)

openModal(modal) ==
  IF modal = "null"
    THEN UNCHANGED <<mOpen, mAria, mRoot, mTouched>>
    ELSE /\ mOpen' = [mOpen EXCEPT ![modal] = TRUE]
         /\ mAria' = [mAria EXCEPT ![modal] = "false"]
         /\ mRoot' = TRUE
         /\ mTouched' = [mTouched EXCEPT ![modal] = TRUE]

\* A variant of closeModal that leaves aria-hidden as it is.
closeModalKeepsAria(modal) ==
  IF modal = "null"
    THEN UNCHANGED <<mOpen, mAria, mRoot, mTouched>>
    ELSE /\ mOpen' = [mOpen EXCEPT ![modal] = FALSE]
         /\ mRoot' = FALSE
         /\ mTouched' = [mTouched EXCEPT ![modal] = TRUE]
         /\ UNCHANGED mAria

closeModal(modal) ==
  IF modal = "null"
    THEN UNCHANGED <<mOpen, mAria, mRoot, mTouched>>
    ELSE /\ mOpen' = [mOpen EXCEPT ![modal] = FALSE]
         /\ mAria' = [mAria EXCEPT ![modal] = "true"]
         /\ mRoot' = FALSE
         /\ mTouched' = [mTouched EXCEPT ![modal] = TRUE]

\* A variant of the overlay test that does not compare the target with the dialog.
OverlayClosesAnywhere(target, modal) == modal # "null" /\ mOverlay[modal] = "1"

\* modal && e.target === modal && the attribute is "1"
OverlayCloses(target, modal) ==
  modal # "null" /\ target = modal /\ mOverlay[modal] = "1"

\* The document's click listener of initModals, run on a click on target.
ModalClickListener(target) ==
  /\ LET opener == Closest(target, Openers)
         closer == Closest(target, Closers)
         modal == Closest(target, Dialogs)
     IN IF opener # "null"
          THEN /\ openModal(mSel[opener])
               /\ mLast' = [kind |-> "click", arg |-> target, prevented |-> TRUE]
        ELSE IF closer # "null"
          THEN /\ closeModal(Closest(closer, Dialogs))
               /\ mLast' = [kind |-> "click", arg |-> target, prevented |-> TRUE]
        ELSE /\ IF OverlayCloses(target, modal)
                   THEN closeModal(modal)
                   ELSE UNCHANGED <<mOpen, mAria, mRoot, mTouched>>
             /\ mLast' = [kind |-> "click", arg |-> target, prevented |-> FALSE]
  /\ UNCHANGED <<mOverlay, mSel>>

\* A click on target, on a page where only the modal controller listens.
ModalClick(target) ==
  /\ OnlyModal
  /\ ModalClickListener(target)

\* A variant of the keydown listener that reacts to every key.
EscapeClosesOnAnyKey(key) ==
  /\ OnlyModal
  /\ closeModal(FirstOpen)
  /\ mLast' = [kind |-> "keydown", arg |-> key, prevented |-> FALSE]
  /\ UNCHANGED <<mOverlay, mSel>>

\* The document's keydown listener of initModals, run on a press of key.
ModalKeydownListener(key) ==
  /\ IF key # "Escape"
       THEN UNCHANGED <<mOpen, mAria, mRoot, mTouched>>
       ELSE closeModal(FirstOpen)
  /\ mLast' = [kind |-> "keydown", arg |-> key, prevented |-> FALSE]
  /\ UNCHANGED <<mOverlay, mSel>>

\* A key press, on a page where only the modal controller listens.
ModalKeydown(key) ==
  /\ OnlyModal
  /\ ModalKeydownListener(key)

\* window.AppModal.openModal(modal), called by other code of the page.
AppModalOpen(modal) ==
  /\ openModal(modal)
  /\ mLast' = [kind |-> "openModal", arg |-> modal, prevented |-> FALSE]
  /\ UNCHANGED <<mOverlay, mSel>>

\* window.AppModal.closeModal(modal), called by other code of the page.
AppModalClose(modal) ==
  /\ closeModal(modal)
  /\ mLast' = [kind |-> "closeModal", arg |-> modal, prevented |-> FALSE]
  /\ UNCHANGED <<mOverlay, mSel>>

ModalApiOpen(modal) ==
  /\ OnlyModal
  /\ AppModalOpen(modal)

ModalApiClose(modal) ==
  /\ OnlyModal
  /\ AppModalClose(modal)

ModalIdle ==
  /\ mOverlay = [m \in Dialogs |-> "absent"]
  /\ mSel = [o \in Openers |-> "null"]
  /\ mOpen = [m \in Dialogs |-> FALSE]
  /\ mAria = [m \in Dialogs |-> "absent"]
  /\ mRoot = FALSE
  /\ mTouched = [m \in Dialogs |-> FALSE]
  /\ mLast = [kind |-> "none", arg |-> "none", prevented |-> FALSE]

\* The page as rendered: any overlay opt-in, the first opener naming either
\* dialog or nothing, the opener inside the first dialog naming the second,
\* and any class and aria-hidden markup on the dialogs, at most one of them
\* rendered open.
ModalInit ==
  /\ mOverlay \in [Dialogs -> OverlayValues]
  /\ mSel \in [Openers -> Dialogs \cup {"null"}]
  /\ mSel["o2"] = "m2"
  /\ mOpen \in [Dialogs -> BOOLEAN]
  /\ \E m \in Dialogs : ~mOpen[m]
  /\ mAria \in [Dialogs -> {"absent", "true", "false"}]
  /\ mRoot = FALSE
  /\ mTouched = [m \in Dialogs |-> FALSE]
  /\ mLast = [kind |-> "none", arg |-> "none", prevented |-> FALSE]

NextModal ==
  \/ \E e \in ModalElems : ModalClick(e)
  \/ \E k \in Keys : ModalKeydown(k)
  \/ \E m \in Dialogs \cup {"null"} : ModalApiOpen(m)
  \/ \E m \in Dialogs \cup {"null"} : ModalApiClose(m)

(***************************************************************************)
(* Claims about the Modal Controller                                       *)
(***************************************************************************)

\* The class and the attribute of dialog m agree.
Agree(open, aria) == (open /\ aria = "false") \/ (~open /\ aria = "true")

\* C5: every dialog that openModal or closeModal has run on has the class
\* is-open exactly when its aria-hidden is "false" and lacks it exactly when
\* aria-hidden is "true"; and every step that changes the class or the
\* attribute of a dialog leaves the two in agreement.
C5_OpenClassAgreesWithAriaHidden ==
  /\ [](\A m \in Dialogs : mTouched[m] => Agree(mOpen[m], mAria[m]))
  /\ [][\A m \in Dialogs :
          (mOpen'[m] # mOpen[m] \/ mAria'[m] # mAria[m]) => Agree(mOpen'[m], mAria'[m])]_vars

\* C5, witness: a dialog rendered open without aria-hidden="false" has been
\* closed by its closer, and a dialog rendered closed has been opened.
C5_Witness ==
  /\ mTouched["m1"] /\ ~mOpen["m1"] /\ mAria["m1"] = "true"
  /\ mTouched["m2"] /\ mOpen["m2"] /\ mAria["m2"] = "false"
  /\ mLast = [kind |-> "click", arg |-> "x1", prevented |-> TRUE]

\* C6 (as amended): Escape closes the first dialog, in document order, that
\* is marked open, and changes no other dialog: with exactly one dialog open
\* before the key press none is open after it, with several open the later
\* ones stay open.  With none open the key press changes no modal state, and
\* a key other than Escape never changes modal state.
C6_EscapeClosesFirstOpenDialog ==
  [][ mLast'.kind = "keydown" =>
        IF mLast'.arg = "Escape" /\ \E m \in Dialogs : mOpen[m]
          THEN LET first == IF mOpen["m1"] THEN "m1" ELSE "m2"
               IN /\ ~mOpen'[first] /\ mAria'[first] = "true"
                  /\ \A m \in Dialogs \ {first} : mOpen'[m] = mOpen[m] /\ mAria'[m] = mAria[m]
                  /\ (Cardinality({m \in Dialogs : mOpen[m]}) = 1 => \A m \in Dialogs : ~mOpen'[m])
          ELSE <<mOpen, mAria, mRoot>>' = <<mOpen, mAria, mRoot>> ]_vars

\* C6, witness: Escape was pressed with two dialogs open; the first is
\* closed, the second still open.
C6_Witness ==
  /\ mLast = [kind |-> "keydown", arg |-> "Escape", prevented |-> FALSE]
  /\ mTouched["m1"] /\ ~mOpen["m1"] /\ mOpen["m2"]

\* C6 (as stated): if at least one dialog is marked open before an Escape key
\* press, no dialog is marked open after it; otherwise, and for every other
\* key, the key press changes no modal state.
C6_EscapeLeavesNoDialogOpen ==
  [][ mLast'.kind = "keydown" =>
        IF mLast'.arg = "Escape" /\ \E m \in Dialogs : mOpen[m]
          THEN \A m \in Dialogs : ~mOpen'[m]
          ELSE <<mOpen, mAria, mRoot>>' = <<mOpen, mAria, mRoot>> ]_vars

\* C7: a click whose target is neither an opener or closer nor inside one
\* closes a dialog only when the target is the dialog element itself and the
\* dialog has data-modal-overlay-close='1', and then closes that dialog only;
\* a click on content inside a dialog, or on the overlay of a dialog without
\* the opt-in, leaves every dialog's open state unchanged.
C7_OverlayClickClosesOnlyWithOptIn ==
  [][ (/\ mLast'.kind = "click"
       /\ SelfAndAncestors(mLast'.arg) \cap {"o1", "o2", "x1", "x2", "xFree"} = {})
      => IF mLast'.arg \in {"m1", "m2"} /\ mOverlay[mLast'.arg] = "1"
           THEN /\ ~mOpen'[mLast'.arg]
                /\ \A m \in Dialogs \ {mLast'.arg} : mOpen'[m] = mOpen[m]
           ELSE mOpen' = mOpen /\ mAria' = mAria ]_vars

\* C7, witness: an open dialog that opted in was closed by a click on its
\* overlay, after a click on its content had left it open.
C7_Witness ==
  /\ mLast = [kind |-> "click", arg |-> "m1", prevented |-> FALSE]
  /\ mOverlay["m1"] = "1" /\ mTouched["m1"] /\ ~mOpen["m1"] /\ mAria["m1"] = "true"
  /\ mOpen["m2"]

\* C18: once openModal and closeModal have run, and every dialog marked
\* open was opened by openModal, the document element has the class
\* is-modal-open if and only if at least one dialog is marked open.
C18_RootClassIffSomeDialogOpen ==
  ((\E m \in Dialogs : mTouched[m]) /\ (\A m \in Dialogs : mOpen[m] => mTouched[m]))
    => (mRoot <=> \E m \in Dialogs : mOpen[m])

\* C18, witness: both dialogs were opened and the second was closed again by
\* closeModal; the first is open and the document element lacks the class.
C18_Witness ==
  /\ mLast = [kind |-> "closeModal", arg |-> "m2", prevented |-> FALSE]
  /\ mTouched["m1"] /\ mOpen["m1"] /\ mAria["m1"] = "false"
  /\ mTouched["m2"] /\ ~mOpen["m2"]
  /\ ~mRoot

(***************************************************************************)
(* Clipboard Helper: initCopyButtons                                       *)
(***************************************************************************)

CopyElems == {"html", "body", "cp", "cpIco", "src"}

\* setTimeout(..., 1200)
FeedbackMs == 1200

\* The cap on writes and feedback timers in flight at once.
MaxInFlight == 2

\* The feedback text of line 325 (Russian in the source: "copied!"),
\* transliterated.
FeedbackText == "Skopirovano!"

\* The elements matching "[data-copy], [data-copy-target]".
CopyButtons == {e \in {"cp"} : cpData # "absent" \/ cpTarget # "absent"}

\* document.querySelector(sel) for the selectors of the model.
QueryCopyTarget(sel) == IF sel = "#src" THEN "src" ELSE "null"

\* A variant that prefers the referenced element to the literal.
CopyTextTargetFirst(el) ==
  LET t == IF cpTarget \in {"absent", ""} THEN "null" ELSE QueryCopyTarget(cpTarget)
      fromTarget ==
        IF t = "null" THEN ""
        ELSE IF cpSrcValue \notin {"undefined", ""} THEN cpSrcValue
        ELSE cpSrcText
  IN IF fromTarget # "" THEN fromTarget
     ELSE IF cpData = "absent" THEN "" ELSE cpData

\* Lines 303-310: the text to copy for button el.
\* let text = el.getAttribute("data-copy");
\* if (!text) { t = targetSel ? $(targetSel) : null;
\*              text = t ? (t.value || t.textContent || "") : ""; }
CopyText(el) ==
  IF cpData \notin {"absent", ""} THEN cpData
  ELSE LET t == IF cpTarget \in {"absent", ""} THEN "null" ELSE QueryCopyTarget(cpTarget)
       IN IF t = "null" THEN ""
          ELSE IF cpSrcValue \notin {"undefined", ""} THEN cpSrcValue
          ELSE cpSrcText

FreshCopyId(used) == CHOOSE i \in 1..(Cardinality(used) + 1) : i \notin used

\* Lines 324-326: const prev = el.getAttribute("data-tip") || "";
\* el.setAttribute("data-tip", feedback); setTimeout(restore prev, 1200).
ShowFeedback ==
  LET prev == IF cpTip = "absent" THEN "" ELSE cpTip
  IN /\ cpTip' = FeedbackText
     /\ cpTimers' = Append(cpTimers, [left |-> FeedbackMs, prev |-> prev])
     /\ cpShown' = TRUE

\* A click on target.  clipboard says whether navigator.clipboard exists:
\* without it the call throws in the try block, the fallback copies and the
\* feedback follows in the same task; with it the handler awaits the promise.
CopyClickListener(target, clipboard) ==
  /\ LET el == Closest(target, CopyButtons)
         text == IF el = "null" THEN "" ELSE CopyText(el)
     IN IF el = "null" \/ text = ""
          THEN /\ cpLast' = [kind |-> "click", target |-> target, text |-> text, did |-> "nothing"]
               /\ UNCHANGED <<cpTip, cpWrites, cpTimers, cpShown>>
        ELSE /\ Cardinality(cpWrites) + Len(cpTimers) < MaxInFlight
             /\ IF clipboard
                  THEN /\ cpWrites' = cpWrites \cup
                            {[id |-> FreshCopyId({w.id : w \in cpWrites}), text |-> text]}
                       /\ cpLast' = [kind |-> "click", target |-> target, text |-> text,
                                     did |-> "writeText"]
                       /\ UNCHANGED <<cpTip, cpTimers, cpShown>>
                  ELSE /\ ShowFeedback
                       /\ cpLast' = [kind |-> "click", target |-> target, text |-> text,
                                     did |-> "execCommand"]
                       /\ UNCHANGED cpWrites
  /\ UNCHANGED <<cpData, cpTarget, cpSrcValue, cpSrcText, cpTip0>>

\* A click on target, on a page where only the clipboard helper listens.
CopyClick(target, clipboard) ==
  /\ OnlyCopy
  /\ CopyClickListener(target, clipboard)

\* A writeText promise settles and the handler goes on after its await:
\* fulfilled, straight to the feedback; rejected, through the fallback.
AfterAwait(w, fulfilled) ==
  /\ w \in cpWrites
  /\ cpWrites' = cpWrites \ {w}
  /\ ShowFeedback
  /\ cpLast' = [kind |-> "settled", target |-> "cp", text |-> w.text,
                did |-> IF fulfilled THEN "written" ELSE "execCommand"]
  /\ UNCHANGED <<cpData, cpTarget, cpSrcValue, cpSrcText, cpTip0>>

CopyWriteSettles(w, fulfilled) ==
  /\ OnlyCopy
  /\ AfterAwait(w, fulfilled)

\* The oldest feedback timer is due and restores the text it remembered
\* (timers of one delay run in the order they were set).
FeedbackTimerCallback ==
  /\ cpTimers # <<>>
  /\ Head(cpTimers).left = 0
  /\ cpTimers' = Tail(cpTimers)
  /\ cpTip' = Head(cpTimers).prev
  /\ cpLast' = [kind |-> "timer", target |-> "cp", text |-> Head(cpTimers).prev,
                did |-> "restore"]
  /\ UNCHANGED <<cpData, cpTarget, cpSrcValue, cpSrcText, cpTip0, cpWrites, cpShown>>

CopyTimerFires ==
  /\ OnlyCopy
  /\ FeedbackTimerCallback

\* 400 ms pass; no timer is due.
FeedbackTimersAge ==
  /\ cpTimers # <<>>
  /\ \A i \in 1..Len(cpTimers) : cpTimers[i].left > 0
  /\ cpTimers' = [i \in 1..Len(cpTimers) |->
                    [cpTimers[i] EXCEPT !.left = cpTimers[i].left - 400]]
  /\ cpLast' = [kind |-> "tick", target |-> "none", text |-> "", did |-> "nothing"]
  /\ UNCHANGED <<cpData, cpTarget, cpSrcValue, cpSrcText, cpTip0, cpTip, cpWrites, cpShown>>

CopyTick ==
  /\ OnlyCopy
  /\ FeedbackTimersAge

CopyStart ==
  /\ cpTip = cpTip0
  /\ cpWrites = {} /\ cpTimers = <<>>
  /\ cpShown = FALSE
  /\ cpLast = [kind |-> "none", target |-> "none", text |-> "", did |-> "nothing"]

CopyIdle ==
  /\ cpData = "absent" /\ cpTarget = "absent"
  /\ cpSrcValue = "undefined" /\ cpSrcText = ""
  /\ cpTip0 = "absent"
  /\ CopyStart

\* The page as rendered: any literal, any reference, any content of the
\* referenced element, any tooltip text on the button.
CopyInit ==
  /\ cpData \in {"absent", "", "LIT"}
  /\ cpTarget \in {"absent", "", "#src", "#gone"}
  /\ cpSrcValue \in {"undefined", "", "VAL"}
  /\ cpSrcText \in {"", "TXT"}
  /\ cpTip0 \in {"absent", "", "Hint"}
  /\ CopyStart

NextCopy ==
  \/ \E e \in CopyElems, clipboard \in BOOLEAN : CopyClick(e, clipboard)
  \/ \E w \in cpWrites, ok \in BOOLEAN : CopyWriteSettles(w, ok)
  \/ CopyTimerFires
  \/ CopyTick

(***************************************************************************)
(* Claims about the Clipboard Helper                                       *)
(***************************************************************************)

\* C8 (as stated): when feedback is shown data-tip holds the feedback text,
\* and once feedback has been shown and every feedback timer has fired, with
\* no activation in progress, data-tip is again the text the button had
\* before any feedback (the empty string if it had none).
C8_TipRestoredAfterFeedback ==
  /\ (cpLast.kind \in {"click", "settled"} /\ cpLast.did \in {"written", "execCommand"})
       => cpTip = FeedbackText
  /\ (cpShown /\ cpTimers = <<>> /\ cpWrites = {})
       => cpTip = (IF cpTip0 = "absent" THEN "" ELSE cpTip0)

\* C8, the part that holds: right after feedback is shown data-tip holds the
\* feedback text, and after a single activation whose timer has fired the
\* original text is back.
C8_Witness ==
  /\ cpShown /\ cpTimers = <<>> /\ cpWrites = {}
  /\ cpTip0 = "Hint" /\ cpTip = "Hint"

\* C9: a click on the copy button (or inside it) resolves the text to the
\* button's data-copy when that is non-empty, otherwise to the value of the
\* element data-copy-target refers to or, when that is empty, its text
\* content; when the resolved text is empty nothing is written or copied,
\* data-tip stays as it is and no feedback timer is scheduled; when it is
\* not, a write or a fallback copy of exactly that text is attempted.
C9_CopyTextResolution ==
  [][ (cpLast'.kind = "click" /\ cpLast'.target \in {"cp", "cpIco"}
       /\ (cpData # "absent" \/ cpTarget # "absent"))
      => LET expected ==
               IF cpData \notin {"absent", ""} THEN cpData
               ELSE IF cpTarget # "#src" THEN ""
               ELSE IF cpSrcValue \notin {"undefined", ""} THEN cpSrcValue
               ELSE cpSrcText
         IN /\ cpLast'.text = expected
            /\ expected = "" =>
                 /\ cpLast'.did = "nothing"
                 /\ cpTip' = cpTip /\ cpTimers' = cpTimers /\ cpWrites' = cpWrites
            /\ expected # "" =>
                 \/ cpLast'.did = "writeText" /\ \E w \in cpWrites' \ cpWrites : w.text = expected
                 \/ cpLast'.did = "execCommand" /\ cpTip' = FeedbackText ]_vars

\* C9, witness: the button refers to an input whose value and text are empty;
\* it was clicked, and nothing was written, shown or scheduled.
C9_Witness ==
  /\ cpLast = [kind |-> "click", target |-> "cp", text |-> "", did |-> "nothing"]
  /\ cpData = "absent" /\ cpTarget = "#src" /\ cpSrcValue = "" /\ cpSrcText = ""
  /\ cpTip = cpTip0 /\ cpTimers = <<>> /\ cpWrites = {} /\ ~cpShown

(***************************************************************************)
(* The three click listeners together.  initConfirms, initModals and        *)
(* initCopyButtons each add a click listener to the document; a click      *)
(* bubbles to the document and the listeners run in the order they were    *)
(* added.  e.stopPropagation() keeps the event from travelling to further  *)
(* nodes; the document being the node all three listen on, the listeners   *)
(* added later still run.  Neither of them looks at e.defaultPrevented.    *)
(***************************************************************************)

\* The elements the user clicks on this page: an opener of the first dialog, a
\* closer inside it, the copy button, the icon inside the button, a plain box.
PageTargets == {"o1", "x1", "cp", "cpIco", "box"}

OnlyPage ==
  scenario = "page"
  /\ UNCHANGED <<scenario, filterVars, tipVars, numVars, chartVars, parseVars>>

\* A click on target: the guard's listener, then the modal controller's, then
\* the clipboard helper's up to its await.  ok is the user's answer if asked.
PageClick(target, ok, clipboard) ==
  /\ OnlyPage
  /\ LET ev == ConfirmClickListener(NewEvent("click", target), ok)
     IN /\ cEv' = ev
        /\ cPrompts' = Prompts(ev)
  /\ UNCHANGED <<cAttr, cPending>>
  /\ ModalClickListener(target)
  /\ CopyClickListener(target, clipboard)

\* A step that is no click: the guard handles no event; it records none.
GuardNotInvolved ==
  /\ cEv' = NewEvent("none", "none")
  /\ cPrompts' = 0
  /\ UNCHANGED <<cAttr, cPending>>

\* A step without an event for the modal controller: it records none.
ModalNotInvolved ==
  /\ mLast' = [kind |-> "none", arg |-> "none", prevented |-> FALSE]
  /\ UNCHANGED <<mOverlay, mSel, mOpen, mAria, mRoot, mTouched>>

\* A step without an event for the clipboard helper: it records none.
CopyNotInvolved ==
  /\ cpLast' = [kind |-> "none", target |-> "none", text |-> "", did |-> "nothing"]
  /\ UNCHANGED <<cpData, cpTarget, cpSrcValue, cpSrcText, cpTip0, cpTip, cpWrites,
                 cpTimers, cpShown>>

\* A writeText promise settles and the clipboard helper shows its feedback.
PageWriteSettles(w, fulfilled) ==
  /\ OnlyPage
  /\ AfterAwait(w, fulfilled)
  /\ GuardNotInvolved /\ ModalNotInvolved

\* The oldest feedback timer is due and restores the text it remembered.
PageTimerFires ==
  /\ OnlyPage
  /\ FeedbackTimerCallback
  /\ GuardNotInvolved /\ ModalNotInvolved

\* 400 ms pass; no timer is due.
PageTick ==
  /\ OnlyPage
  /\ FeedbackTimersAge
  /\ GuardNotInvolved /\ ModalNotInvolved

\* A key press: the modal controller's keydown listener.
PageKeydown(key) ==
  /\ OnlyPage
  /\ ModalKeydownListener(key)
  /\ GuardNotInvolved /\ CopyNotInvolved

\* Other code of the page calls window.AppModal.openModal(modal).
PageApiOpen(modal) ==
  /\ OnlyPage
  /\ AppModalOpen(modal)
  /\ GuardNotInvolved /\ CopyNotInvolved

\* Other code of the page calls window.AppModal.closeModal(modal).
PageApiClose(modal) ==
  /\ OnlyPage
  /\ AppModalClose(modal)
  /\ GuardNotInvolved /\ CopyNotInvolved

\* The page as rendered: the opener, the closer and the copy button all
\* carry data-confirm, or none of them does; the opener names the first
\* dialog, both dialogs are closed; the button carries a literal to copy,
\* with or without a tooltip text.
PageInit ==
  /\ \E attr \in {"absent", "Delete?"} :
       cAttr = [e \in ConfirmElems |-> IF e \in {"o1", "x1", "cp"} THEN attr ELSE "absent"]
  /\ cEv = NewEvent("none", "none")
  /\ cPending = FALSE
  /\ cPrompts = 0
  /\ mOverlay = [m \in Dialogs |-> "absent"]
  /\ mSel = [o \in Openers |-> IF o = "o1" THEN "m1" ELSE "m2"]
  /\ mOpen = [m \in Dialogs |-> FALSE]
  /\ mAria = [m \in Dialogs |-> "true"]
  /\ mRoot = FALSE
  /\ mTouched = [m \in Dialogs |-> FALSE]
  /\ mLast = [kind |-> "none", arg |-> "none", prevented |-> FALSE]
  /\ cpData = "LIT" /\ cpTarget = "absent"
  /\ cpSrcValue = "undefined" /\ cpSrcText = ""
  /\ cpTip0 \in {"absent", "Hint"}
  /\ CopyStart

NextPage ==
  \/ \E target \in PageTargets, ok \in BOOLEAN, clipboard \in BOOLEAN :
       PageClick(target, ok, clipboard)
  \/ \E w \in cpWrites, fulfilled \in BOOLEAN : PageWriteSettles(w, fulfilled)
  \/ PageTimerFires
  \/ PageTick
  \/ \E key \in Keys : PageKeydown(key)
  \/ \E modal \in Dialogs \cup {"null"} : PageApiOpen(modal)
  \/ \E modal \in Dialogs \cup {"null"} : PageApiClose(modal)

\* C19: when the user declines the prompt for a click on an element that
\* carries data-confirm together with data-modal-open, data-modal-close or
\* data-copy, the click has no further effect: no dialog is opened or closed,
\* nothing is copied and no feedback is shown.
C19_DeclinedClickHasNoFurtherEffect ==
  [][ (/\ scenario = "page"
       /\ cEv'.type = "click" /\ cEv'.target \in {"o1", "x1", "cp"}
       /\ cAttr[cEv'.target] # "absent"
       /\ cEv'.prompted /\ ~cEv'.answer)
      => /\ <<mOpen, mAria, mRoot>>' = <<mOpen, mAria, mRoot>>
         /\ <<cpWrites, cpTimers, cpTip>>' = <<cpWrites, cpTimers, cpTip>> ]_vars

\* C19, witness: the opener carries data-confirm, the user declined, the
\* click was cancelled and stopped, and the dialog is open.
C19_Witness ==
  /\ scenario = "page"
  /\ cAttr["o1"] = "Delete?"
  /\ cEv.type = "click" /\ cEv.target = "o1"
  /\ cEv.prompted /\ ~cEv.answer /\ cEv.prevented /\ cEv.stopped
  /\ mLast = [kind |-> "click", arg |-> "o1", prevented |-> TRUE]
  /\ mOpen["m1"] /\ mRoot

(***************************************************************************)
(* Formatting/Parsing Utilities: parseNumber.  A string is a sequence of   *)
(* one-character strings; a number is [nan, v], v counting in units of     *)
(* 1/Scale so that every decimal fraction of the model's strings is exact. *)
(***************************************************************************)

\* The longest string of the model.
MaxLen == 3

\* The characters the user types: digits, both separators, a blank, a sign.
Chars == {"1", "5", ",", ".", " ", "-"}
Digits == {"0", "1", "2", "3", "4", "5", "6", "7", "8", "9"}

\* null: what getAttribute returns for a missing attribute.
Null == <<"null">>

RECURSIVE Pow10(_)
Pow10(k) == IF k = 0 THEN 1 ELSE 10 * Pow10(k - 1)
Scale == Pow10(MaxLen + 1)

NaN == [nan |-> TRUE, v |-> 0]
Num(v) == [nan |-> FALSE, v |-> v]

DigitVal(c) ==
  CASE c = "0" -> 0 [] c = "1" -> 1 [] c = "2" -> 2 [] c = "3" -> 3 [] c = "4" -> 4
    [] c = "5" -> 5 [] c = "6" -> 6 [] c = "7" -> 7 [] c = "8" -> 8 [] OTHER -> 9

\* String.prototype.replace(",", "."): the first comma only.
RECURSIVE ReplaceFirstComma(_)
ReplaceFirstComma(s) ==
  IF s = <<>> THEN <<>>
  ELSE IF Head(s) = "," THEN <<".">> \o Tail(s)
  ELSE <<Head(s)>> \o ReplaceFirstComma(Tail(s))

\* A variant that replaces no comma.
ReplaceNoComma(s) == s

RECURSIVE TrimStart(_)
TrimStart(s) == IF s # <<>> /\ Head(s) = " " THEN TrimStart(Tail(s)) ELSE s
RECURSIVE TrimEnd(_)
TrimEnd(s) ==
  IF s # <<>> /\ s[Len(s)] = " " THEN TrimEnd(SubSeq(s, 1, Len(s) - 1)) ELSE s
\* String.prototype.trim()
Trim(s) == TrimEnd(TrimStart(s))

\* The value of a digit string read as an integer.
RECURSIVE DigitsValue(_)
DigitsValue(s) ==
  IF s = <<>> THEN 0 ELSE 10 * DigitsValue(SubSeq(s, 1, Len(s) - 1)) + DigitVal(s[Len(s)])

AllDigits(s) == \A i \in 1..Len(s) : s[i] \in Digits

\* An unsigned decimal literal: digits, optionally a dot, digits; at least
\* one digit.
UnsignedDecimal(s) ==
  LET dots == {i \in 1..Len(s) : s[i] = "."}
  IN IF dots = {}
       THEN IF s # <<>> /\ AllDigits(s) THEN Num(DigitsValue(s) * Scale) ELSE NaN
     ELSE IF Cardinality(dots) > 1 THEN NaN
     ELSE LET d == CHOOSE i \in dots : TRUE
              int == SubSeq(s, 1, d - 1)
              frac == SubSeq(s, d + 1, Len(s))
          IN IF AllDigits(int) /\ AllDigits(frac) /\ Len(int) + Len(frac) > 0
                  /\ Len(frac) <= MaxLen + 1
               THEN Num(DigitsValue(int) * Scale
                        + DigitsValue(frac) * Pow10(MaxLen + 1 - Len(frac)))
               ELSE NaN

\* Number(v) for a string of the model's characters: blanks around it are
\* dropped, the empty string is 0, a sign may lead a decimal literal, and
\* anything else is NaN.
ToNumber(v) ==
  LET t == Trim(v)
  IN IF t = <<>> THEN Num(0)
     ELSE IF Head(t) = "-"
       THEN LET u == UnsignedDecimal(Tail(t)) IN IF u.nan THEN NaN ELSE Num(0 - u.v)
     ELSE UnsignedDecimal(t)

\* A variant of parseNumber that leaves the comma alone.
parseNumberNoComma(s) ==
  IF s = Null THEN NaN ELSE ToNumber(Trim(ReplaceNoComma(s)))

\* parseNumber(s)
parseNumber(s) ==
  IF s = Null THEN NaN ELSE ToNumber(Trim(ReplaceFirstComma(s)))

\* Number.isFinite for the numbers of the model (none is infinite).
IsFinite(n) == ~n.nan

\* a < b and a > b on numbers: false when either is NaN.
Less(a, b) == ~a.nan /\ ~b.nan /\ a.v < b.v
Greater(a, b) == ~a.nan /\ ~b.nan /\ a.v > b.v

(***************************************************************************)
(* parseNumber as the page's scripts reach it, window.AppUI.parseNumber    *)
(***************************************************************************)

\* s with every comma written as a dot.
WithDots(s) == [i \in 1..Len(s) |-> IF s[i] = "," THEN "." ELSE s[i]]

NotCalled == [called |-> FALSE, comma |-> NaN, dot |-> NaN]

\* The script extends its string by a character.
ParseType(c) ==
  /\ OnlyParse
  /\ Len(pS) < MaxLen
  /\ pS' = Append(pS, c)
  /\ pR' = NotCalled

\* The script starts over with the empty string.
ParseClear ==
  /\ OnlyParse
  /\ pS # <<>>
  /\ pS' = <<>>
  /\ pR' = NotCalled

\* The script calls parseNumber on its string and on the same string
\* written with dots.
ParseCall ==
  /\ OnlyParse
  /\ ~pR.called
  /\ pR' = [called |-> TRUE, comma |-> parseNumber(pS), dot |-> parseNumber(WithDots(pS))]
  /\ UNCHANGED pS

ParseIdle == pS = <<>> /\ pR = NotCalled
ParseInit == pS = <<>> /\ pR = NotCalled

NextParse ==
  \/ \E c \in Chars : ParseType(c)
  \/ ParseClear
  \/ ParseCall

\* A number written with a comma as its decimal separator: blanks, digits,
\* one comma, digits, blanks, with a digit on at least one side of the comma.
IsCommaDecimal(s) ==
  LET t == Trim(s)
      commas == {i \in 1..Len(t) : t[i] = ","}
  IN /\ Cardinality(commas) = 1
     /\ \A i \in 1..Len(t) : t[i] \in Digits \cup {","}
     /\ Len(t) >= 2

\* C15: for a number written with a comma as decimal separator, optionally
\* with blanks around it, parseNumber gives the same result, a number, as for
\* the same text written with a dot.
C15_CommaAndDotParseAlike ==
  (pR.called /\ IsCommaDecimal(pS)) => (pR.comma = pR.dot /\ ~pR.comma.nan)

\* C15, witness: parseNumber was called on "1,5" and on "1.5" and gave 1.5
\* both times.
C15_Witness ==
  /\ pS = <<"1", ",", "5">>
  /\ pR.called
  /\ pR.comma = Num(15 * Pow10(MaxLen)) /\ pR.dot = Num(15 * Pow10(MaxLen))

(***************************************************************************)
(* Numeric Input Validator: initNumericInputs                              *)
(***************************************************************************)

\* The values data-min and data-max take in the model.
BoundValues == {Null, <<>>, <<"1">>, <<"1", ",", "5">>, <<"-", "5">>, <<"a">>}

\* A variant of the bounds test that also flags a value equal to a bound.
OutOfRangeInclusive(n, min, max) ==
  \/ IsFinite(min) /\ (Less(n, min) \/ (~n.nan /\ n.v = min.v))
  \/ IsFinite(max) /\ (Greater(n, max) \/ (~n.nan /\ n.v = max.v))

\* (Number.isFinite(min) && n < min) || (Number.isFinite(max) && n > max)
OutOfRange(n, min, max) ==
  \/ IsFinite(min) /\ Less(n, min)
  \/ IsFinite(max) /\ Greater(n, max)

\* The user types a character into the field.
NumericType(c) ==
  /\ OnlyNumeric
  /\ Len(nValue) < MaxLen
  /\ nValue' = Append(nValue, c)
  /\ nLast' = [kind |-> "type", before |-> <<>>, flagged |-> nInvalid]
  /\ UNCHANGED <<nMin, nMax, nInvalid, nBlurSet>>

\* The user empties the field.
NumericClear ==
  /\ OnlyNumeric
  /\ nValue' = <<>>
  /\ nLast' = [kind |-> "clear", before |-> <<>>, flagged |-> nInvalid]
  /\ UNCHANGED <<nMin, nMax, nInvalid, nBlurSet>>

\* The blur listener.
NumericBlur ==
  /\ OnlyNumeric
  /\ nLast' = [kind |-> "blur", before |-> nValue, flagged |-> nInvalid]
  /\ IF nValue = <<>>
       THEN UNCHANGED <<nValue, nInvalid, nBlurSet>>
       ELSE LET value == Trim(ReplaceFirstComma(nValue))
                n == parseNumber(value)
                min == parseNumber(nMin)
                max == parseNumber(nMax)
            IN /\ nValue' = value
               /\ nInvalid' = OutOfRange(n, min, max)
               /\ nBlurSet' = (nBlurSet \/ OutOfRange(n, min, max))
  /\ UNCHANGED <<nMin, nMax>>

NumericIdle ==
  /\ nMin = Null /\ nMax = Null
  /\ nValue = <<>>
  /\ nInvalid = FALSE
  /\ nLast = [kind |-> "none", before |-> <<>>, flagged |-> FALSE]
  /\ nBlurSet = FALSE

\* The page as rendered: any bounds, an empty field, flagged or not.
NumericInit ==
  /\ nMin \in BoundValues /\ nMax \in BoundValues
  /\ nValue = <<>>
  /\ nInvalid \in BOOLEAN
  /\ nLast = [kind |-> "none", before |-> <<>>, flagged |-> nInvalid]
  /\ nBlurSet = FALSE

NextNumeric ==
  \/ \E c \in Chars : NumericType(c)
  \/ NumericClear
  \/ NumericBlur

(***************************************************************************)
(* Claims about the Numeric Input Validator                                *)
(***************************************************************************)

\* C10: after a blur of the numeric input holding a non-empty value that
\* parses to a number n, the input is flagged is-invalid if and only if a
\* data-min that is a finite number is above n or a data-max that is a finite
\* number is below n; a value equal to a bound, or between the bounds, is not
\* flagged.
C10_FlaggedIffOutsideClosedRange ==
  LET n == parseNumber(nLast.before)
      min == parseNumber(nMin)
      max == parseNumber(nMax)
  IN (nLast.kind = "blur" /\ nLast.before # <<>> /\ ~n.nan) =>
       /\ nInvalid <=> ((~min.nan /\ n.v < min.v) \/ (~max.nan /\ n.v > max.v))
       /\ ((min.nan \/ min.v <= n.v) /\ (max.nan \/ n.v <= max.v)) => ~nInvalid

\* C10, witness: the field was flagged as rendered, holds "1,5" with the
\* bounds -5 and 1.5, both declared, and the blur has cleared the flag: the
\* value equals the upper bound.
C10_Witness ==
  /\ nLast = [kind |-> "blur", before |-> <<"1", ",", "5">>, flagged |-> TRUE]
  /\ nMin = <<"-", "5">> /\ nMax = <<"1", ",", "5">>
  /\ nValue = <<"1", ".", "5">>
  /\ ~nInvalid

\* A bound attribute holds a parsable number: it is present, not blank, and
\* its text reads as a number.
HoldsNumber(b) == b # Null /\ Trim(b) # <<>> /\ ~parseNumber(b).nan

\* C13: a data-min or data-max that is absent, empty or not numeric is
\* treated as absent: after a blur of a non-empty numeric value the input is
\* flagged only because of a bound that holds a parsable number.
C13_UnparsableBoundIsAbsent ==
  LET n == parseNumber(nLast.before)
      min == parseNumber(nMin)
      max == parseNumber(nMax)
  IN (nLast.kind = "blur" /\ nLast.before # <<>> /\ ~n.nan) =>
       (nInvalid <=> \/ HoldsNumber(nMin) /\ n.v < min.v
                     \/ HoldsNumber(nMax) /\ n.v > max.v)

\* C13, witness: the input has an empty data-min and no data-max, holds -5,
\* and the blur has flagged it.
C13_Witness ==
  /\ nMin = <<>> /\ nMax = Null
  /\ nLast.kind = "blur" /\ nLast.before = <<"-", "5">>
  /\ nInvalid

\* C17: after a blur the flag reflects the current value only: once an
\* earlier blur has set it, a blur on a value that violates no declared bound,
\* an empty value and a value that is not a number included, leaves the input
\* unflagged.
C17_BlurClearsStaleFlag ==
  LET n == parseNumber(nLast.before)
      min == parseNumber(nMin)
      max == parseNumber(nMax)
      violates == /\ nLast.before # <<>>
                  /\ ~n.nan
                  /\ ((~min.nan /\ n.v < min.v) \/ (~max.nan /\ n.v > max.v))
  IN (nLast.kind = "blur" /\ nBlurSet /\ ~violates) => ~nInvalid

\* C17, witness: a blur flagged the input, the user then entered text that
\* is not a number, and the next blur cleared the flag.
C17_Witness ==
  /\ nLast.kind = "blur" /\ nLast.flagged /\ nBlurSet
  /\ nLast.before # <<>> /\ parseNumber(nLast.before).nan
  /\ ~nInvalid

(***************************************************************************)
(* Chart Bootstrap: initCharts, and the rest of the DOMContentLoaded       *)
(* handler after it.  The canvases carry neither data-chart-type nor       *)
(* data-label; their other attributes are read when forEach reaches them.  *)
(***************************************************************************)

\* The most canvases a page of the model holds.
MaxCanvases == 2

\* JSON.parse: a thrown SyntaxError, or the value parsed, an array of
\* numbers or one number.
JsonThrows == [ok |-> FALSE, arr |-> FALSE, items |-> <<>>]
JsonArray(items) == [ok |-> TRUE, arr |-> TRUE, items |-> items]
JsonValue(n) == [ok |-> TRUE, arr |-> FALSE, items |-> <<n>>]

\* A JSON number of the model: digits, no leading zero before another digit.
IsJsonNumber(s) ==
  /\ s # <<>>
  /\ AllDigits(s)
  /\ (Len(s) > 1 => Head(s) # "0")

\* The pieces of s between its commas.
RECURSIVE SplitComma(_)
SplitComma(s) ==
  LET commas == {i \in 1..Len(s) : s[i] = ","}
  IN IF commas = {} THEN <<s>>
     ELSE LET c == CHOOSE i \in commas : \A j \in commas : i <= j
          IN <<SubSeq(s, 1, c - 1)>> \o SplitComma(SubSeq(s, c + 1, Len(s)))

\* JSON.parse(s) for texts without blanks.
JsonParse(s) ==
  IF IsJsonNumber(s) THEN JsonValue(DigitsValue(s))
  ELSE IF Len(s) >= 2 /\ Head(s) = "[" /\ s[Len(s)] = "]"
    THEN LET inner == SubSeq(s, 2, Len(s) - 1)
             parts == SplitComma(inner)
         IN IF inner = <<>> THEN JsonArray(<<>>)
            ELSE IF \A i \in 1..Len(parts) : IsJsonNumber(parts[i])
              THEN JsonArray([i \in 1..Len(parts) |-> DigitsValue(parts[i])])
            ELSE JsonThrows
  ELSE JsonThrows

\* canvas.getAttribute(name) || "[]"
OrEmptyArray(attr) == IF attr = Null \/ attr = <<>> THEN <<"[", "]">> ELSE attr

\* canvas.getAttribute(name) || fallback, for an attribute given as a string
OrDefault(attr, fallback) == IF attr \in {"absent", ""} THEN fallback ELSE attr

\* The values data-labels takes in the model: missing, empty, three labels,
\* a text that is not JSON, a JSON value that is not an array.
LabelTexts ==
  { Null, <<>>, <<"[", "1", ",", "2", ",", "3", "]">>, <<"[", "1", ",">>, <<"7">> }

\* The values data-values takes: missing, three points, not JSON.
ValueTexts ==
  { Null, <<"[", "6", "2", ",", "6", "5", ",", "7", "0", "]">>,
    <<"[", "6", "2", ",", "]">> }

\* The values data-min and data-max take on a canvas.
ChartBoundValues == {Null, <<>>, <<"5", "0">>, <<"9", "0">>, <<"a">>}

\* The labels of the reference series ("Норма min", "Норма max").
MinLabel == "Norma min"
MaxLabel == "Norma max"

\* labels.map(() => bound): one entry per label, each the bound.
MapToBound(labels, bound) == [i \in 1..Len(labels.items) |-> bound]

\* A variant that gives the reference series one entry per value.
ReferenceSeriesPerValue(labels, values, bound, name) ==
  [label |-> name, data |-> [i \in 1..Len(values.items) |-> bound], dashed |-> TRUE]

\* datasets.push({label: name, data: labels.map(() => bound), ...})
ReferenceSeries(labels, values, bound, name) ==
  [label |-> name, data |-> MapToBound(labels, bound), dashed |-> TRUE]

\* The datasets array of lines 241-269, for parsed labels (an array) and
\* values.
Datasets(label, labels, values, nmin, nmax) ==
  <<[label |-> label, data |-> values, dashed |-> FALSE]>>
    \o (IF IsFinite(nmin) THEN <<ReferenceSeries(labels, values, nmin, MinLabel)>> ELSE <<>>)
    \o (IF IsFinite(nmax) THEN <<ReferenceSeries(labels, values, nmax, MaxLabel)>> ELSE <<>>)

NoConfig == [type |-> "none", labels |-> JsonThrows, datasets |-> <<>>]
NoChart ==
  [canvas |-> 0, labels |-> Null, values |-> Null, min |-> Null, max |-> Null,
   threw |-> FALSE, config |-> NoConfig]

\* The body of the try block for one canvas: what it throws or builds.
\* JSON.parse throws on a text that is not JSON; labels.map throws when
\* labels is not an array and a bound is finite; the constructor may throw.
TryBlock(labelsTxt, valuesTxt, min, max, ctorThrows) ==
  LET type == OrDefault("absent", "line")
      label == OrDefault("absent", "Series")
      labels == JsonParse(OrEmptyArray(labelsTxt))
      values == JsonParse(OrEmptyArray(valuesTxt))
      nmin == parseNumber(min)
      nmax == parseNumber(max)
  IN IF ~labels.ok \/ ~values.ok THEN [threw |-> TRUE, config |-> NoConfig]
     ELSE IF ~labels.arr /\ (IsFinite(nmin) \/ IsFinite(nmax))
       THEN [threw |-> TRUE, config |-> NoConfig]
     ELSE [threw |-> ctorThrows,
           config |-> [type |-> type, labels |-> labels,
                       datasets |-> Datasets(label, labels, values, nmin, nmax)]]

\* A variant without the catch block: the exception leaves forEach,
\* initCharts and the DOMContentLoaded handler.
Uncaught(threw) == IF threw THEN "aborted" ELSE "loop"

\* catch (err) { console.warn(...) }: forEach goes on.
Caught(threw) == "loop"

\* initCharts is called: it returns at once without canvases or engine.
ChartsBegin ==
  /\ OnlyCharts
  /\ chPhase = "before"
  /\ IF chCount = 0 \/ ~chEngine
       THEN chPhase' = "returned" /\ chPos' = 0
       ELSE chPhase' = "loop" /\ chPos' = 1
  /\ UNCHANGED <<chEngine, chCount, chBuilt, chThrew, chLast, chCopyAttached>>

\* The forEach callback for the canvas at chPos, whose attributes and whose
\* constructor's behaviour are the parameters.
ChartsForEach(labelsTxt, valuesTxt, min, max, ctorThrows) ==
  /\ OnlyCharts
  /\ chPhase = "loop"
  /\ \E r \in {TryBlock(labelsTxt, valuesTxt, min, max, ctorThrows)} :
        /\ chLast' = [canvas |-> chPos, labels |-> labelsTxt, values |-> valuesTxt,
                      min |-> min, max |-> max, threw |-> r.threw, config |-> r.config]
        /\ chBuilt' = IF r.threw THEN chBuilt ELSE Append(chBuilt, chPos)
        /\ chThrew' = IF r.threw THEN chThrew \cup {chPos} ELSE chThrew
        /\ IF Caught(r.threw) = "aborted"
             THEN chPhase' = "aborted" /\ chPos' = chPos
             ELSE IF chPos = chCount
               THEN chPhase' = "returned" /\ chPos' = chPos
               ELSE chPhase' = "loop" /\ chPos' = chPos + 1
  /\ UNCHANGED <<chEngine, chCount, chCopyAttached>>

\* initCharts has returned: initCopyButtons attaches its listener.
ChartsThenCopyButtons ==
  /\ OnlyCharts
  /\ chPhase = "returned"
  /\ chCopyAttached' = TRUE
  /\ chPhase' = "done"
  /\ UNCHANGED <<chEngine, chCount, chPos, chBuilt, chThrew, chLast>>

ChartsIdle ==
  /\ chEngine = FALSE /\ chCount = 0
  /\ chPhase = "done" /\ chPos = 0
  /\ chBuilt = <<>> /\ chThrew = {}
  /\ chLast = NoChart
  /\ chCopyAttached = TRUE

\* DOMContentLoaded has reached initCharts: any number of canvases, with or
\* without a charting engine.
ChartsInit ==
  /\ chEngine \in BOOLEAN
  /\ chCount \in 0..MaxCanvases
  /\ chPhase = "before" /\ chPos = 0
  /\ chBuilt = <<>> /\ chThrew = {}
  /\ chLast = NoChart
  /\ chCopyAttached = FALSE

NextCharts ==
  \/ ChartsBegin
  \/ \E labelsTxt \in LabelTexts, valuesTxt \in ValueTexts,
        min \in ChartBoundValues, max \in ChartBoundValues, ctorThrows \in BOOLEAN :
       ChartsForEach(labelsTxt, valuesTxt, min, max, ctorThrows)
  \/ ChartsThenCopyButtons

(***************************************************************************)
(* Claims about the Chart Bootstrap                                        *)
(***************************************************************************)

\* C11: for a canvas whose attributes parse, the datasets handed to the
\* charting engine are the primary series, whose data is the parsed
\* data-values, then one reference series if and only if data-min parses to
\* a finite number, then one if and only if data-max does; a reference
\* series has one entry per category label, each equal to its bound, so there
\* are 1 + (min present) + (max present) series.
C11_DatasetsPrimaryThenBounds ==
  LET ds == chLast.config.datasets
      labels == JsonParse(OrEmptyArray(chLast.labels))
      values == JsonParse(OrEmptyArray(chLast.values))
      nmin == parseNumber(chLast.min)
      nmax == parseNumber(chLast.max)
      hasMin == ~nmin.nan
      hasMax == ~nmax.nan
      Flat(series, bound) ==
        /\ series.dashed
        /\ Len(series.data) = Len(labels.items)
        /\ \A i \in 1..Len(series.data) : series.data[i] = bound
  IN (chLast.canvas # 0 /\ chLast.config # NoConfig) =>
       /\ Len(ds) = 1 + (IF hasMin THEN 1 ELSE 0) + (IF hasMax THEN 1 ELSE 0)
       /\ ds[1].data = values /\ ~ds[1].dashed
       /\ hasMin => ds[2].label = MinLabel /\ Flat(ds[2], nmin)
       /\ hasMax => ds[Len(ds)].label = MaxLabel /\ Flat(ds[Len(ds)], nmax)
       /\ (hasMin /\ hasMax) => Len(ds) = 3

\* C11, witness: a canvas with three labels, the values [62,65,70], min 50
\* and max 90 was given three series, the reference series three entries long.
C11_Witness ==
  /\ chLast.canvas # 0 /\ ~chLast.threw
  /\ chLast.values = <<"[", "6", "2", ",", "6", "5", ",", "7", "0", "]">>
  /\ chLast.min = <<"5", "0">> /\ chLast.max = <<"9", "0">>
  /\ Len(chLast.config.datasets) = 3
  /\ chLast.config.datasets[1].data.items = <<62, 65, 70>>
  /\ Len(chLast.config.datasets[2].data) = 3
  /\ Len(chLast.config.datasets[3].data) = 3

\* C12: with a charting engine present, whichever canvases throw while
\* their attributes are parsed or their chart is constructed, the exception
\* never leaves initCharts, a chart is constructed for every other canvas, in
\* document order, and the handler goes on to attach the clipboard helper.
C12_FailuresIsolatedPerCanvas ==
  /\ chPhase # "aborted"
  /\ (chEngine /\ chPhase = "loop") => chPos <= chCount
  /\ (chEngine /\ chPhase \in {"returned", "done"}) =>
       /\ {chBuilt[i] : i \in 1..Len(chBuilt)} = (1..chCount) \ chThrew
       /\ \A i, j \in 1..Len(chBuilt) : i < j => chBuilt[i] < chBuilt[j]
  /\ chPhase = "done" => chCopyAttached

\* C12, witness: of two canvases the first threw and the second was given
\* its chart, and the clipboard helper is attached.
C12_Witness ==
  /\ chEngine /\ chCount = 2
  /\ chThrew = {1} /\ chBuilt = <<2>>
  /\ chPhase = "done" /\ chCopyAttached

(***************************************************************************)
(* Specifications                                                          *)
(***************************************************************************)

InitFilter ==
  scenario = "filter" /\ FilterInit /\ ConfirmIdle /\ TooltipIdle /\ ModalIdle /\ CopyIdle /\ NumericIdle
    /\ ChartsIdle /\ ParseIdle
InitConfirm ==
  scenario = "confirm" /\ FilterIdle /\ ConfirmInit /\ TooltipIdle /\ ModalIdle /\ CopyIdle /\ NumericIdle
    /\ ChartsIdle /\ ParseIdle
InitTooltip ==
  scenario = "tooltip" /\ FilterIdle /\ ConfirmIdle /\ TooltipInit /\ ModalIdle /\ CopyIdle /\ NumericIdle
    /\ ChartsIdle /\ ParseIdle
InitModal ==
  scenario = "modal" /\ FilterIdle /\ ConfirmIdle /\ TooltipIdle /\ ModalInit /\ CopyIdle /\ NumericIdle
    /\ ChartsIdle /\ ParseIdle
InitCopy ==
  scenario = "copy" /\ FilterIdle /\ ConfirmIdle /\ TooltipIdle /\ ModalIdle /\ CopyInit /\ NumericIdle
    /\ ChartsIdle /\ ParseIdle
InitNumeric ==
  scenario = "numeric" /\ FilterIdle /\ ConfirmIdle /\ TooltipIdle /\ ModalIdle /\ CopyIdle /\ NumericInit
    /\ ChartsIdle /\ ParseIdle

InitCharts ==
  scenario = "charts" /\ FilterIdle /\ ConfirmIdle /\ TooltipIdle /\ ModalIdle /\ CopyIdle /\ NumericIdle
    /\ ChartsInit /\ ParseIdle

InitParse ==
  scenario = "parse" /\ FilterIdle /\ ConfirmIdle /\ TooltipIdle /\ ModalIdle /\ CopyIdle /\ NumericIdle
    /\ ChartsIdle /\ ParseInit

InitPage ==
  scenario = "page" /\ FilterIdle /\ TooltipIdle /\ NumericIdle /\ ChartsIdle /\ ParseIdle
    /\ PageInit

SpecFilter == InitFilter /\ [][NextFilter]_vars
SpecConfirm == InitConfirm /\ [][NextConfirm]_vars
SpecTooltip == InitTooltip /\ [][NextTooltip]_vars
SpecModal == InitModal /\ [][NextModal]_vars
SpecCopy == InitCopy /\ [][NextCopy]_vars
SpecNumeric == InitNumeric /\ [][NextNumeric]_vars
SpecCharts == InitCharts /\ [][NextCharts]_vars
SpecParse == InitParse /\ [][NextParse]_vars
SpecPage == InitPage /\ [][NextPage]_vars

Init ==
  InitFilter \/ InitConfirm \/ InitTooltip \/ InitModal \/ InitCopy \/ InitNumeric
    \/ InitCharts \/ InitParse \/ InitPage
Next ==
  NextFilter \/ NextConfirm \/ NextTooltip \/ NextModal \/ NextCopy \/ NextNumeric
    \/ NextCharts \/ NextParse \/ NextPage
Spec == Init /\ [][Next]_vars
====
